---- MODULE Spec2Model ----
(***************************************************************************)
(* Model of src/client.py: generate(), a thin client for the Veo REST API, *)
(* and the module's standalone entry point.                                *)
(*                                                                         *)
(* Python values are tagged records [t |-> tag, v |-> payload]:            *)
(*   null (None), bool, num, str (a sequence of one-character strings),    *)
(*   list (a sequence of values), obj (a sequence of <<key, value>>        *)
(*   members), bytes (a sequence of integers 0..255).                      *)
(***************************************************************************)
EXTENDS Integers, Sequences, FiniteSets, TLC

VARIABLES pc, caller, prompt, model_id, aspect_ratio, duration, data,
          url, body, sent, response, outcome, file, log

vars == <<pc, caller, prompt, model_id, aspect_ratio, duration, data,
          url, body, sent, response, outcome, file, log>>

(***************************************************************************)
(* Bounds of the model.                                                    *)
(***************************************************************************)
MaxB64Len == 4

(***************************************************************************)
(* Python / JSON values.                                                   *)
(***************************************************************************)
None == [t |-> "null", v |-> 0]
PyBool(b) == [t |-> "bool", v |-> b]
PyNum(n) == [t |-> "num", v |-> n]
PyStr(s) == [t |-> "str", v |-> s]
PyList(s) == [t |-> "list", v |-> s]
PyObj(s) == [t |-> "obj", v |-> s]
PyBytes(s) == [t |-> "bytes", v |-> s]
NotJson == [t |-> "notjson", v |-> 0]

\* The text of the two keys the code looks up, as character sequences.
Chars(k) ==
  CASE k = "predictions" -> <<"p","r","e","d","i","c","t","i","o","n","s">>
    [] k = "bytesB64Encoded" ->
         <<"b","y","t","e","s","B","6","4","E","n","c","o","d","e","d">>
    [] k = "prompt" -> <<"p","r","o","m","p","t">>
    [] OTHER -> <<k>>

\* Result of evaluating a Python expression: a value, or a raised exception.
Val(x) == [exc |-> "none", val |-> x]
Raise(e) == [exc |-> e, val |-> None]

IsSubstring(k, s) ==
  \E i \in 0..(Len(s) - Len(k)) : SubSeq(s, i + 1, i + Len(k)) = k

HasKey(members, k) == \E i \in 1..Len(members) : members[i][1] = k

Lookup(members, k) ==
  members[CHOOSE i \in 1..Len(members) : members[i][1] = k][2]

\* Python `k in x` for a str literal k.
PyContains(x, k) ==
  CASE x.t = "obj" -> Val(HasKey(x.v, k))
    [] x.t = "list" ->
         Val(\E i \in 1..Len(x.v) : x.v[i].t = "str" /\ x.v[i].v = Chars(k))
    [] x.t = "str" -> Val(IsSubstring(Chars(k), x.v))
    [] OTHER -> Raise("TypeError")

\* Python `x[k]` for a str literal k.
PyGetKey(x, k) ==
  CASE x.t = "obj" -> IF HasKey(x.v, k) THEN Val(Lookup(x.v, k))
                      ELSE Raise("KeyError")
    [] OTHER -> Raise("TypeError")

\* Variant: the last element is taken instead of the first.
PyGetFirst_Last(x) ==
  CASE x.t = "list" -> IF Len(x.v) > 0 THEN Val(x.v[Len(x.v)])
                       ELSE Raise("IndexError")
    [] x.t = "str" -> IF Len(x.v) > 0 THEN Val(PyStr(<<x.v[Len(x.v)]>>))
                      ELSE Raise("IndexError")
    [] x.t = "obj" -> Raise("KeyError")
    [] OTHER -> Raise("TypeError")

\* Python `x[0]`.
PyGetFirst(x) ==
  CASE x.t = "list" -> IF Len(x.v) > 0 THEN Val(x.v[1]) ELSE Raise("IndexError")
    [] x.t = "str" -> IF Len(x.v) > 0 THEN Val(PyStr(<<x.v[1]>>))
                      ELSE Raise("IndexError")
    [] x.t = "obj" -> Raise("KeyError")
    [] OTHER -> Raise("TypeError")

\* Python truth value (`not x`, `if x:`).
PyTruthy(x) ==
  CASE x.t = "null" -> FALSE
    [] x.t = "bool" -> x.v
    [] x.t = "num" -> x.v # 0
    [] OTHER -> Len(x.v) > 0

\* Python `x[:100]`: defined for sequences only.
PySliceable(x) == x.t \in {"str", "list", "bytes"}

(***************************************************************************)
(* base64.b64decode (non-validating), as CPython's binascii.a2b_base64.    *)
(***************************************************************************)
B64Alphabet ==
  <<"A","B","C","D","E","F","G","H","I","J","K","L","M","N","O","P",
    "Q","R","S","T","U","V","W","X","Y","Z","a","b","c","d","e","f",
    "g","h","i","j","k","l","m","n","o","p","q","r","s","t","u","v",
    "w","x","y","z","0","1","2","3","4","5","6","7","8","9","+","/">>

IsB64Char(c) == \E i \in 1..64 : B64Alphabet[i] = c
B64Val(c) == (CHOOSE i \in 1..64 : B64Alphabet[i] = c) - 1
B64Pad == "="
\* A character outside ASCII, written as its code point.
NonAscii == "U+00E9"

\* One data character consumed at position quad of the current quad:
\* the bytes it completes and the bits left over.
a2bEmit(quad, left, c) ==
  CASE quad = 0 -> [out |-> <<>>, left |-> c]
    [] quad = 1 -> [out |-> <<(left * 4 + c \div 16) % 256>>, left |-> c % 16]
    [] quad = 2 -> [out |-> <<(left * 16 + c \div 4) % 256>>, left |-> c % 4]
    [] quad = 3 -> [out |-> <<(left * 64 + c) % 256>>, left |-> 0]

RECURSIVE a2b_base64(_, _, _, _, _, _)
a2b_base64(s, i, quad, left, pads, out) ==
  IF i > Len(s)
  THEN IF quad # 0 THEN Raise("binascii.Error") ELSE Val(PyBytes(out))
  ELSE IF s[i] = B64Pad
  THEN IF quad >= 2 /\ quad + pads + 1 >= 4
       THEN Val(PyBytes(out))
       ELSE a2b_base64(s, i + 1, quad, left,
                       IF quad >= 2 THEN pads + 1 ELSE pads, out)
  ELSE IF ~IsB64Char(s[i])
  THEN a2b_base64(s, i + 1, quad, left, pads, out)
  ELSE LET e == a2bEmit(quad, left, B64Val(s[i]))
       IN a2b_base64(s, i + 1, (quad + 1) % 4, e.left, 0, out \o e.out)

b64decode(x) ==
  IF x.t # "str" THEN Raise("TypeError")
  ELSE IF \E i \in 1..Len(x.v) : x.v[i] = NonAscii THEN Raise("ValueError")
  ELSE a2b_base64(x.v, 1, 0, 0, 0, <<>>)

(***************************************************************************)
(* The try block of generate (lines 68-92) and its except clauses.         *)
(***************************************************************************)
\* Variants: only server errors, or only client errors, raise.
raise_for_status_5xxOnly(status) == 500 <= status /\ status < 600
raise_for_status_4xxOnly(status) == 400 <= status /\ status < 500

\* requests.Response.raise_for_status: raises HTTPError for 4XX and 5XX.
raise_for_status(status) == 400 <= status /\ status < 600

\* What the try block evaluates to: the value returned, or the exception
\* raised; parsed: response.json() was called; tried: b64decode was called.
Step(r, parsed, tried) ==
  [exc |-> r.exc, val |-> r.val, parsed |-> parsed, tried |-> tried]

\* Lines 88-92.
DecodePrediction(prediction) ==
  LET b64_video == PyGetKey(prediction, "bytesB64Encoded")
  IN IF b64_video.exc # "none" THEN Step(b64_video, TRUE, FALSE)
     ELSE Step(b64decode(b64_video.val), TRUE, TRUE)

\* Variant: the payload is read with a default ("") instead of being
\* checked for, as prediction.get('bytesB64Encoded', '') would.
ExtractPrediction_Get(predictions) ==
  LET prediction == PyGetFirst(predictions)
  IN IF prediction.exc # "none" THEN Step(prediction, TRUE, FALSE)
     ELSE IF prediction.val.t # "obj" THEN Step(Raise("AttributeError"), TRUE, FALSE)
     ELSE IF ~HasKey(prediction.val.v, "bytesB64Encoded")
     THEN Step(b64decode(PyStr(<<>>)), TRUE, TRUE)
     ELSE DecodePrediction(prediction.val)

\* Lines 81-85.
ExtractPrediction(predictions) ==
  LET prediction == PyGetFirst(predictions)
  IN IF prediction.exc # "none" THEN Step(prediction, TRUE, FALSE)
     ELSE LET has == PyContains(prediction.val, "bytesB64Encoded")
          IN IF has.exc # "none" THEN Step(has, TRUE, FALSE)
             ELSE IF ~has.val THEN Step(Val(None), TRUE, FALSE)
             ELSE DecodePrediction(prediction.val)

\* Lines 76-79.
ExtractVideo(response_data) ==
  LET has == PyContains(response_data, "predictions")
  IN IF has.exc # "none" THEN Step(has, TRUE, FALSE)
     ELSE IF ~has.val THEN Step(Val(None), TRUE, FALSE)
     ELSE LET predictions == PyGetKey(response_data, "predictions")
          IN IF predictions.exc # "none" THEN Step(predictions, TRUE, FALSE)
             ELSE IF ~PyTruthy(predictions.val)
             THEN Step(Val(None), TRUE, FALSE)
             ELSE ExtractPrediction(predictions.val)

\* Lines 69-92.
TryBlock(resp) ==
  IF resp.kind = "transport_error"
  THEN Step(Raise("ConnectionError"), FALSE, FALSE)
  ELSE IF raise_for_status(resp.status)
  THEN Step(Raise("HTTPError"), FALSE, FALSE)
  ELSE IF resp.body.t = "notjson"
  THEN Step(Raise("JSONDecodeError"), TRUE, FALSE)
  ELSE ExtractVideo(resp.body)

\* Variant: the final `except Exception` clause is missing.
ExceptClause_NoCatchAll(exc) ==
  IF exc \in {"ConnectionError", "HTTPError"} THEN 1
  ELSE IF exc \in {"JSONDecodeError", "KeyError", "IndexError", "binascii.Error"}
  THEN 2
  ELSE 0

\* The except clauses, in order; 0 when no clause matches.  The body of
\* every clause logs and returns None.  The last clause, `except Exception`,
\* matches every exception the try block can raise.
ExceptClause(exc) ==
  IF exc \in {"ConnectionError", "HTTPError"} THEN 1
  ELSE IF exc \in {"JSONDecodeError", "KeyError", "IndexError", "binascii.Error"}
  THEN 2
  ELSE 3

\* Lines 68-109: how the invocation ends once the POST has been made.
Finish(resp) ==
  LET t == TryBlock(resp)
  IN IF t.exc = "none"
     THEN [end |-> "returned", val |-> t.val, exc |-> "none", clause |-> 0,
           parsed |-> t.parsed, tried |-> t.tried]
     ELSE IF ExceptClause(t.exc) # 0
     THEN [end |-> "returned", val |-> None, exc |-> t.exc,
           clause |-> ExceptClause(t.exc),
           parsed |-> t.parsed, tried |-> t.tried]
     ELSE [end |-> "raised", val |-> None, exc |-> t.exc, clause |-> 0,
           parsed |-> t.parsed, tried |-> t.tried]

(***************************************************************************)
(* Request construction (lines 34-65).                                     *)
(***************************************************************************)
MODEL_ID == <<"v","e","o","-","2">>
PROMPT == <<"A"," ","s","e","r","e","n","e"," ","s","u","n","s","e","t">>
DefaultAspect == <<"1","6",":","9">>
DefaultDuration == <<"5","s">>
VideoMp4 == <<"v","i","d","e","o","/","m","p","4">>

\* Lines 34-41: the endpoint depends on the model only.
ResolveUrl(m) == IF m.t = "null" THEN PyStr(MODEL_ID) ELSE m

\* Variant: `if not data` in place of `if data is None`.
RequestBody_Falsy(p, a, d, x) ==
  IF ~PyTruthy(x)
  THEN PyObj(<< <<"instances", PyList(<<PyObj(<< <<"prompt", p>> >>)>>)>>,
               <<"parameters",
                 PyObj(<< <<"sampleCount", PyNum(1)>>,
                          <<"aspectRatio", a>>,
                          <<"duration", d>>,
                          <<"outputMimeType", PyStr(VideoMp4)>> >>)>> >>)
  ELSE x

\* Lines 48-61.
RequestBody(p, a, d, x) ==
  IF x.t = "null"
  THEN PyObj(<< <<"instances", PyList(<<PyObj(<< <<"prompt", p>> >>)>>)>>,
               <<"parameters",
                 PyObj(<< <<"sampleCount", PyNum(1)>>,
                          <<"aspectRatio", a>>,
                          <<"duration", d>>,
                          <<"outputMimeType", PyStr(VideoMp4)>> >>)>> >>)
  ELSE x

(***************************************************************************)
(* Inputs of the model: the caller's arguments and the server's answers.   *)
(***************************************************************************)
Text(k) == PyStr(Chars(k))

Prompts == {PyStr(<<"t","e","s","t">>), PyList(<<PyNum(1)>>), None, PyNum(7)}
ModelIds == {None, PyStr(<<"v","e","o","-","3">>)}
AspectRatios == {PyStr(DefaultAspect), PyStr(<<"w","i","d","e">>)}
Durations == {PyStr(DefaultDuration), PyNum(99)}
Datas == {None, PyObj(<<>>), PyObj(<< <<"instances", PyList(<<>>)>> >>)}

Statuses == {101, 200, 304, 404, 503, 600}

\* Strings offered as bytesB64Encoded: every string over B64TestChars up to
\* MaxB64Len characters, and a few longer or richer ones.
B64TestChars == {"Q", "=", "!"}
B64Extra ==
  { <<"Q","U","J","D">>, <<"Q","U","I","=">>, <<"Q","U","J","D","!">>,
    <<"Q","U"," ","J","D">>, <<"Q","U","J">>, <<"Q","U","J","D","Q","U","I","=">>,
    <<"Q","R","=","=","Q","U","J","D">>, <<"Q","U","J","D","=","=","=","=">>,
    <<NonAscii>>, <<"/","+","9","/">> }
B64Strings ==
  UNION {[1..n -> B64TestChars] : n \in 0..MaxB64Len} \cup B64Extra

\* A body of the documented shape, alone or among other fields and later
\* predictions.
Documented(s, variant) ==
  IF variant = 1
  THEN PyObj(<< <<"predictions",
                  PyList(<<PyObj(<< <<"bytesB64Encoded", PyStr(s)>> >>)>>)>> >>)
  ELSE PyObj(<< <<"metadata", PyNum(1)>>,
                <<"predictions",
                  PyList(<<PyObj(<< <<"mimeType", PyStr(VideoMp4)>>,
                                    <<"bytesB64Encoded", PyStr(s)>> >>),
                           PyObj(<< <<"bytesB64Encoded",
                                      PyStr(<<"/","/","/","/">>)>> >>),
                           PyNum(3)>>)>> >>)

WithPredictions(p) == PyObj(<< <<"predictions", p>> >>)
WithFirst(x) == WithPredictions(PyList(<<x>>))
Payload(x) == WithFirst(PyObj(<< <<"bytesB64Encoded", x>> >>))

\* Bodies of every other shape.
OtherBodies ==
  { NotJson, None, PyBool(TRUE), PyNum(5), PyStr(<<"o","k">>),
    PyStr(<<"n","o"," ">> \o Chars("predictions")),
    PyList(<<>>), PyList(<<Text("predictions")>>), PyList(<<PyNum(1)>>),
    PyObj(<<>>), PyObj(<< <<"error", PyStr(<<"x">>)>> >>),
    WithPredictions(None), WithPredictions(PyList(<<>>)),
    WithPredictions(PyObj(<<>>)), WithPredictions(PyNum(0)),
    WithPredictions(PyNum(3)), WithPredictions(PyBool(FALSE)),
    WithPredictions(PyStr(<<>>)), WithPredictions(PyStr(<<"a","b">>)),
    WithPredictions(Text("bytesB64Encoded")),
    WithPredictions(PyObj(<< <<"bytesB64Encoded", PyStr(<<"Q","U","J","D">>)>> >>)),
    WithFirst(None), WithFirst(PyNum(3)), WithFirst(PyStr(<<>>)),
    WithFirst(PyStr(<<"a">>)), WithFirst(Text("bytesB64Encoded")),
    WithFirst(PyList(<<>>)), WithFirst(PyList(<<Text("bytesB64Encoded")>>)),
    WithFirst(PyObj(<<>>)),
    WithFirst(PyObj(<< <<"video", PyStr(<<"Q","U","J","D">>)>> >>)),
    PyObj(<< <<"predictions", PyList(<<PyObj(<<>>),
               PyObj(<< <<"bytesB64Encoded", PyStr(<<"Q","U","J","D">>)>> >>)>>)>> >>),
    Payload(None), Payload(PyNum(5)), Payload(PyList(<<>>)),
    Payload(PyObj(<<>>)), Payload(PyBool(TRUE)) }

Bodies ==
  {Documented(s, v) : s \in B64Strings, v \in {1, 2}} \cup OtherBodies

Responses ==
  {[kind |-> "transport_error", status |-> 0, body |-> NotJson]} \cup
  {[kind |-> "response", status |-> st, body |-> b] : st \in Statuses, b \in Bodies}

(***************************************************************************)
(* The state machine.                                                      *)
(***************************************************************************)
NoOutcome ==
  [end |-> "none", val |-> None, exc |-> "none", clause |-> 0,
   parsed |-> FALSE, tried |-> FALSE]
NoResponse == [kind |-> "none", status |-> 0, body |-> NotJson]

Init ==
  /\ pc = "idle"
  /\ caller = "none"
  /\ prompt = None /\ model_id = None /\ aspect_ratio = None
  /\ duration = None /\ data = None
  /\ url = None /\ body = None
  /\ sent = <<>>
  /\ response = NoResponse
  /\ outcome = NoOutcome
  /\ file = None
  /\ log = <<>>

\* A caller invokes generate(prompt, model_id, aspect_ratio, duration, data).
Call(p, m, a, d, x) ==
  /\ pc = "idle"
  /\ pc' = "entered"
  /\ caller' = "library"
  /\ prompt' = p /\ model_id' = m /\ aspect_ratio' = a
  /\ duration' = d /\ data' = x
  /\ UNCHANGED <<url, body, sent, response, outcome, file, log>>

\* Line 129: the entry point invokes generate(prompt=PROMPT, duration="5s").
MainCall ==
  /\ pc = "idle"
  /\ pc' = "entered"
  /\ caller' = "main"
  /\ prompt' = PyStr(PROMPT) /\ model_id' = None
  /\ aspect_ratio' = PyStr(DefaultAspect)
  /\ duration' = PyStr(DefaultDuration) /\ data' = None
  /\ log' = Append(log, "running_test")
  /\ UNCHANGED <<url, body, sent, response, outcome, file>>

\* Lines 34-66: resolve the URL, build the body, log the request.  The log
\* line slices the prompt outside the try block.
Prepare ==
  /\ pc = "entered"
  /\ url' = ResolveUrl(model_id)
  /\ body' = RequestBody(prompt, aspect_ratio, duration, data)
  /\ IF PySliceable(prompt)
     THEN /\ pc' = "ready"
          /\ log' = log \o <<"sending", "parameters">>
          /\ outcome' = outcome
     ELSE /\ pc' = "raised"
          /\ log' = log
          /\ outcome' = [NoOutcome EXCEPT !.end = "raised", !.exc = "TypeError"]
  /\ UNCHANGED <<caller, prompt, model_id, aspect_ratio, duration, data,
                 sent, response, file>>

\* Line 69: requests.post(url, headers=headers, json=data); the exchange ends
\* in a transport error or in a response.
Post ==
  /\ pc = "ready"
  /\ pc' = "responded"
  /\ sent' = Append(sent, [url |-> url, json |-> body])
  /\ response' \in Responses
  /\ UNCHANGED <<caller, prompt, model_id, aspect_ratio, duration, data,
                 url, body, outcome, file, log>>

\* Lines 70-109: status check, parsing, decoding, except clauses.
Process ==
  /\ pc = "responded"
  /\ outcome' = Finish(response)
  /\ pc' = outcome'.end
  /\ log' = Append(log, IF outcome'.exc # "none" THEN "error"
                        ELSE IF outcome'.val.t = "bytes" THEN "generated"
                        ELSE "missing")
  /\ UNCHANGED <<caller, prompt, model_id, aspect_ratio, duration, data,
                 url, body, sent, response, file>>

\* Lines 131-140: the entry point saves the video or logs the failure;
\* opening or writing the file may fail with IOError.
MainSave(ok) ==
  /\ pc = "returned"
  /\ caller = "main"
  /\ pc' = "exit"
  /\ IF PyTruthy(outcome.val)
     THEN IF ok
          THEN file' = outcome.val /\ log' = Append(log, "saved")
          ELSE file' = file /\ log' = Append(log, "save_failed")
     ELSE file' = file /\ log' = Append(log, "generation_failed")
  /\ UNCHANGED <<caller, prompt, model_id, aspect_ratio, duration, data,
                 url, body, sent, response, outcome>>

Next ==
  \/ \E p \in Prompts, m \in ModelIds, a \in AspectRatios, d \in Durations,
        x \in Datas : Call(p, m, a, d, x)
  \/ MainCall
  \/ Prepare
  \/ Post
  \/ Process
  \/ \E ok \in BOOLEAN : MainSave(ok)

Spec == Init /\ [][Next]_vars

(***************************************************************************)
(* Vocabulary of the properties.                                           *)
(***************************************************************************)
\* generate has ended, by returning or by raising.
Ended == pc \in {"returned", "raised", "exit"}
\* The exchange and the processing of its result are over.
Processed == response.kind # "none" /\ pc # "responded"
Answered == Processed /\ response.kind = "response"
Is2xx(st) == 200 <= st /\ st <= 299
Is4xx5xx(st) == 400 <= st /\ st <= 599
ReturnedBytes == outcome.end = "returned" /\ outcome.val.t = "bytes"
ReturnedNone == outcome.end = "returned" /\ outcome.val = None

\* The shape of a body, read off the value itself.
HasPredictions(b) == b.t = "obj" /\ HasKey(b.v, "predictions")
PredictionsOf(b) == Lookup(b.v, "predictions")
HasFirst(b) ==
  HasPredictions(b) /\ PredictionsOf(b).t = "list" /\ Len(PredictionsOf(b).v) > 0
FirstOf(b) == PredictionsOf(b).v[1]
HasPayload(b) ==
  HasFirst(b) /\ FirstOf(b).t = "obj" /\ HasKey(FirstOf(b).v, "bytesB64Encoded")
PayloadOf(b) == Lookup(FirstOf(b).v, "bytesB64Encoded")
HasText(b) == HasPayload(b) /\ PayloadOf(b).t = "str"

\* Base64 of RFC 4648: whole quads of alphabet characters, the last quad
\* possibly ending in one or two pad characters.
ValidB64(s) ==
  /\ Len(s) % 4 = 0
  /\ \A i \in 1..Len(s) :
       \/ IsB64Char(s[i])
       \/ /\ s[i] = "="
          /\ i >= Len(s) - 1
          /\ i = Len(s) \/ s[Len(s)] = "="

Sextet(c) == IF c = "=" THEN 0 ELSE B64Val(c)
QuadBits(s, q) ==
  Sextet(s[4 * q - 3]) * 262144 + Sextet(s[4 * q - 2]) * 4096
    + Sextet(s[4 * q - 1]) * 64 + Sextet(s[4 * q])
QuadBytes(s, q) ==
  LET n == QuadBits(s, q)
      three == <<n \div 65536, (n \div 256) % 256, n % 256>>
  IN IF s[4 * q - 1] = "=" THEN SubSeq(three, 1, 1)
     ELSE IF s[4 * q] = "=" THEN SubSeq(three, 1, 2)
     ELSE three
RECURSIVE QuadsFrom(_, _)
QuadsFrom(s, q) ==
  IF 4 * q > Len(s) THEN <<>> ELSE QuadBytes(s, q) \o QuadsFrom(s, q + 1)
Rfc4648Decode(s) == QuadsFrom(s, 1)

(***************************************************************************)
(* Properties.                                                             *)
(***************************************************************************)
\* C1: whatever the exchange and the processing of its result produced
\* (transport error, error status, non-JSON body, JSON of any shape, decode
\* error, any other error), generate ends by returning bytes or None; no
\* exception escapes.
C1_NoThrowAfterPost ==
  Processed =>
    /\ pc # "raised"
    /\ outcome.end = "returned"
    /\ outcome.val.t \in {"bytes", "null"}

\* An error the try block does not name (a TypeError on a non-object
\* prediction) was converted to None.
C1_Witness ==
  /\ pc = "returned"
  /\ HasFirst(response.body) /\ FirstOf(response.body).t = "num"
  /\ outcome.exc = "TypeError"
  /\ ReturnedNone

\* C2: a 2xx response whose first prediction carries valid base64 text under
\* bytesB64Encoded makes generate return exactly the decoding of that text,
\* whatever else the body holds, and never None, even for the empty text.
C2_ReturnsDecodedFirst ==
  (Answered /\ Is2xx(response.status) /\ HasText(response.body)
     /\ ValidB64(PayloadOf(response.body).v)) =>
    /\ ReturnedBytes
    /\ outcome.val.v = Rfc4648Decode(PayloadOf(response.body).v)

\* Bytes came from the first of several predictions, the later ones carrying
\* other payloads.
C2_Witness ==
  /\ pc = "returned"
  /\ Is2xx(response.status)
  /\ HasText(response.body)
  /\ Len(PredictionsOf(response.body).v) > 1
  /\ PayloadOf(response.body).v = <<"Q","U","I","=">>
  /\ outcome.val = PyBytes(<<65, 66>>)

\* C3 as stated: every status >= 400 yields None without parsing.
C3_Original ==
  (Answered /\ response.status >= 400) =>
    ReturnedNone /\ ~outcome.parsed /\ ~outcome.tried

\* C3, amended: every status from 400 to 599 yields None, without raising
\* and without parsing the body, whatever the body is.
C3_ErrorStatusAbsent ==
  (Answered /\ Is4xx5xx(response.status)) =>
    ReturnedNone /\ ~outcome.parsed /\ ~outcome.tried

\* A 404 whose body holds a well-formed prediction gave None.
C3_Witness ==
  /\ pc = "returned"
  /\ response.status = 404
  /\ HasText(response.body)
  /\ PayloadOf(response.body).v = <<"Q","U","J","D">>
  /\ ReturnedNone

\* C4 as stated: every status outside 2xx yields None.
C4_Original ==
  (Answered /\ ~Is2xx(response.status)) => ReturnedNone

\* C4, amended: bytes are returned only for a response whose status is
\* outside 400..599; a 4xx or 5xx response yields None.
C4_BytesOnlyOutsideErrorRange ==
  /\ (Processed /\ ReturnedBytes) =>
       (response.kind = "response" /\ ~Is4xx5xx(response.status))
  /\ (Answered /\ Is4xx5xx(response.status)) => ReturnedNone

\* A 304 response that reached the function was parsed and gave bytes.
C4_Witness ==
  /\ pc = "returned"
  /\ response.status = 304
  /\ ReturnedBytes
  /\ Len(outcome.val.v) > 0

\* The body has no predictions key, or an empty predictions list, or a first
\* prediction without the bytesB64Encoded key.
LacksPayload(b) ==
  /\ b.t # "notjson"
  /\ \/ ~HasPredictions(b)
     \/ PredictionsOf(b) = PyList(<<>>)
     \/ HasFirst(b) /\ ~HasPayload(b)

\* C5: a 2xx response whose body lacks the payload makes generate return
\* None without attempting a base64 decode.
C5_MissingPayloadAbsent ==
  (Answered /\ Is2xx(response.status) /\ LacksPayload(response.body)) =>
    ReturnedNone /\ ~outcome.tried

\* The first prediction is an object without the key, a later one has it.
C5_Witness ==
  /\ pc = "returned"
  /\ response.status = 200
  /\ HasFirst(response.body)
  /\ FirstOf(response.body) = PyObj(<<>>)
  /\ Len(PredictionsOf(response.body).v) > 1
  /\ ReturnedNone /\ ~outcome.tried

\* C6 as stated: text that is not valid base64 under bytesB64Encoded never
\* yields bytes.
C6_InvalidBase64Absent ==
  (Answered /\ Is2xx(response.status) /\ HasText(response.body)
     /\ ~ValidB64(PayloadOf(response.body).v)) => ReturnedNone

\* For C7: the body read member by member.
IsDefaultBody(j, p, a, d) ==
  /\ j.t = "obj"
  /\ {j.v[i][1] : i \in 1..Len(j.v)} = {"instances", "parameters"}
  /\ Lookup(j.v, "instances") = PyList(<<PyObj(<< <<"prompt", p>> >>)>>)
  /\ LET q == Lookup(j.v, "parameters")
     IN /\ q.t = "obj"
        /\ {q.v[i][1] : i \in 1..Len(q.v)} =
             {"sampleCount", "aspectRatio", "duration", "outputMimeType"}
        /\ Lookup(q.v, "sampleCount") = PyNum(1)
        /\ Lookup(q.v, "aspectRatio") = a
        /\ Lookup(q.v, "duration") = d
        /\ Lookup(q.v, "outputMimeType") = PyStr(VideoMp4)

\* C7: the body sent is data when data is supplied (an empty object
\* included), and otherwise the default body carrying prompt, aspect_ratio
\* and duration unchanged.
C7_BodySent ==
  \A i \in 1..Len(sent) :
    IF data # None THEN sent[i].json = data
    ELSE IsDefaultBody(sent[i].json, prompt, aspect_ratio, duration)

\* An empty object supplied as data was sent as it is.
C7_Witness ==
  /\ Len(sent) = 1
  /\ data = PyObj(<<>>)
  /\ sent[1].json = PyObj(<<>>)
  /\ duration = PyNum(99)

\* C8 as stated: an invocation that has ended issued exactly one POST.
C8_ExactlyOnePost == Ended => Len(sent) = 1

\* The part of C8 about what follows the POST: never a second request, and
\* the step after the POST ends the invocation.
NoSecondPost ==
  [][/\ Len(sent') <= 1
     /\ pc = "responded" => (pc' \in {"returned", "raised"} /\ sent' = sent)]_vars

\* C9 as stated: the entry point writes the file exactly when generate
\* returned bytes, and logs the failure exactly when it returned None.
Logged(e) == \E i \in 1..Len(log) : log[i] = e
C9_SaveIffBytes ==
  pc = "exit" =>
    /\ Len(sent) = 1
    /\ (Logged("saved") \/ Logged("save_failed")) <=> outcome.val.t = "bytes"
    /\ Logged("saved") => file = outcome.val
    /\ Logged("generation_failed") <=> outcome.val = None

\* C10 as stated: an error raised before the POST is converted to a None
\* return and does not escape generate.
C10_EarlyFailureAbsent ==
  (Ended /\ Len(sent) = 0) => ReturnedNone

====
